---- MODULE Spec2Model ----
(***************************************************************************)
(* A model of make_gtfs/main.py: the pipeline build_feed runs over a       *)
(* ProtoFeed (build_agency, build_calendar_etc, build_routes,              *)
(* build_shapes, build_stops, build_trips, build_stop_times and the final  *)
(* pruning of the stop table).                                             *)
(*                                                                         *)
(* Strings that the code joins, splits, sorts or parses are sequences of   *)
(* one-character strings, so that joining and splitting are computed.      *)
(* Distances are exact rationals <<numerator, denominator>> in km and      *)
(* clock times exact integers: the rounding of Python floats is not        *)
(* modelled, and the input values are chosen where both agree.             *)
(***************************************************************************)
EXTENDS Integers, Sequences, FiniteSets, TLC

VARIABLES
    frequencies,        \* pfeed.frequencies, cleaned by ProtoFeed.__init__
    service_windows,    \* pfeed.service_windows
    meta,               \* pfeed.meta (its single row)
    pfeed_shapes,       \* pfeed.shapes['features']
    pfeed_stops,        \* pfeed.stops: [is_none |-> TRUE] or a stop table
    shapes_extra,       \* pfeed.shapes_extra
    nearby,             \* what the geometry library answers for each shape:
                        \* the stops in its buffer and their measured km
    agency, calendar, service_by_window, routes, shapes, stops, trips,
    stop_times,         \* the tables built so far
    feed_stops,         \* the stop table of the returned Feed
    error,              \* the exception that ended the run, or "" for none
    pc                  \* the next step of build_feed

vars == <<frequencies, service_windows, meta, pfeed_shapes, pfeed_stops,
          shapes_extra, nearby, agency, calendar, service_by_window, routes,
          shapes, stops, trips, stop_times, feed_stops, error, pc>>

pfeed == <<frequencies, service_windows, meta, pfeed_shapes, pfeed_stops,
           shapes_extra, nearby>>

-----------------------------------------------------------------------------
(* Strings *)

\* The characters in use, in ASCII order ('-' < digits < ':' < letters).
Chars == <<"-", "0", "1", "2", "3", "4", "5", "6", "7", "8", "9", ":",
           "a", "b", "p", "q", "r", "s", "t", "v", "w", "x">>

DigitChars == {"0", "1", "2", "3", "4", "5", "6", "7", "8", "9"}

Ord(c) == CHOOSE i \in 1..Len(Chars) : Chars[i] = c

\* Python's < on str: lexicographic by code point.
RECURSIVE StrLess(_, _)
StrLess(a, b) ==
    IF Len(b) = 0 THEN FALSE
    ELSE IF Len(a) = 0 THEN TRUE
    ELSE IF a[1] # b[1] THEN Ord(a[1]) < Ord(b[1])
    ELSE StrLess(Tail(a), Tail(b))

\* str(n) for an integer n >= 0.
RECURSIVE Str(_)
Str(n) == IF n < 10 THEN <<Chars[n + 2]>>
          ELSE Str(n \div 10) \o <<Chars[(n % 10) + 2]>>

IsDigits(s) == Len(s) > 0 /\ \A i \in 1..Len(s) : s[i] \in DigitChars

\* int(s) for a string of digits.
RECURSIVE ParseInt(_)
ParseInt(s) ==
    IF Len(s) = 0 THEN 0
    ELSE ParseInt(SubSeq(s, 1, Len(s) - 1)) * 10 + (Ord(s[Len(s)]) - 2)

\* sep.join(parts)
RECURSIVE Join(_, _)
Join(sep, parts) ==
    IF Len(parts) = 0 THEN <<>>
    ELSE IF Len(parts) = 1 THEN parts[1]
    ELSE parts[1] \o <<sep>> \o Join(sep, Tail(parts))

\* s.split(sep) for a one-character separator.
RECURSIVE Split(_, _)
Split(s, sep) ==
    IF \A i \in 1..Len(s) : s[i] # sep THEN <<s>>
    ELSE LET k == CHOOSE i \in 1..Len(s) :
                      s[i] = sep /\ \A j \in 1..(i - 1) : s[j] # sep
         IN  <<SubSeq(s, 1, k - 1)>> \o Split(SubSeq(s, k + 1, Len(s)), sep)

\* cs.SEP: the separator of the composite identifiers; build_shapes writes it
\* as the literal '-' in shape + '-1', which build_trips must match.
SEP == "-"

\* '{:02d}'.format(n)
Pad2(n) == IF n < 10 THEN <<"0">> \o Str(n) ELSE Str(n)

\* gt.timestr_to_seconds(x, inverse=True): int(x) seconds as HH:MM:SS.
SecondsToTimestr(x) ==
    Pad2(x \div 3600) \o <<":">> \o Pad2((x % 3600) \div 60) \o <<":">>
        \o Pad2(x % 60)

\* gt.timestr_to_seconds(x): HH:MM:SS as seconds; -1 stands for its NaN.
TimestrToSeconds(x) ==
    LET parts == Split(x, ":")
    IN  IF Len(parts) = 3 /\ \A i \in 1..3 : IsDigits(parts[i])
        THEN ParseInt(parts[1]) * 3600 + ParseInt(parts[2]) * 60
                 + ParseInt(parts[3])
        ELSE -1

\* get_duration(timestr1, timestr2, 's'); the callers divide by 3600.
get_duration(timestr1, timestr2) ==
    TimestrToSeconds(timestr2) - TimestrToSeconds(timestr1)

-----------------------------------------------------------------------------
(* Sequences *)

Range(s) == {s[i] : i \in 1..Len(s)}

RECURSIVE Flatten(_)
Flatten(ss) == IF Len(ss) = 0 THEN <<>> ELSE ss[1] \o Flatten(Tail(ss))

Reverse(s) == [i \in 1..Len(s) |-> s[Len(s) + 1 - i]]

\* drop_duplicates(): the first occurrence of each row, in order.
DropDuplicates(s) ==
    LET first == {i \in 1..Len(s) : \A j \in 1..(i - 1) : s[j] # s[i]}
        RECURSIVE Pick(_)
        Pick(i) == IF i > Len(s) THEN <<>>
                   ELSE (IF i \in first THEN <<s[i]>> ELSE <<>>) \o Pick(i + 1)
    IN  Pick(1)

\* All the sequences without repetition that list the set S.
RECURSIVE Orderings(_)
Orderings(S) ==
    IF S = {} THEN {<<>>}
    ELSE UNION {{<<x>> \o o : o \in Orderings(S \ {x})} : x \in S}

\* The sequences over S of length 1..n.
SeqUpTo(S, n) == UNION {[1..k -> S] : k \in 1..n}

\* sorted() of a set of strings.
RECURSIVE SortStrs(_)
SortStrs(S) ==
    IF S = {} THEN <<>>
    ELSE LET m == CHOOSE x \in S : \A y \in S \ {x} : StrLess(x, y)
         IN  <<m>> \o SortStrs(S \ {m})

-----------------------------------------------------------------------------
(* ProtoFeed.__init__ *)

\* The fill value of a missing route_type (bus).
DefaultRouteType == 3

\* A missing cell of an input table is <<>>, a present one <<value>>.
Fillna(cell, value) == IF cell = <<>> THEN value ELSE cell[1]

\* The cleaning of the frequency table: route_type and speed filled in.
CleanFrequencies(raw, m) ==
    [i \in 1..Len(raw) |->
        [route_short_name  |-> raw[i].route_short_name,
         route_long_name   |-> raw[i].route_long_name,
         route_type        |-> Fillna(raw[i].route_type, DefaultRouteType),
         service_window_id |-> raw[i].service_window_id,
         direction         |-> raw[i].direction,
         frequency         |-> raw[i].frequency,
         speed             |-> Fillna(raw[i].speed, m.default_route_speed),
         shape_id          |-> raw[i].shape_id]]

\* my_agg without the test len(dirs) > 1: the first direction stands for all.
my_agg_first(dirs) ==
    IF 2 \in dirs THEN 2
    ELSE CHOOSE d \in dirs : \A e \in dirs : d <= e

\* my_agg, given the directions of the rows that share a shape_id.
my_agg(dirs) ==
    IF Cardinality(dirs) > 1 \/ 2 \in dirs THEN 2
    ELSE CHOOSE d \in dirs : TRUE

\* pfeed.shapes_extra: <shape ID> -> <trip directions using the shape>.
ShapesExtra(freq) ==
    [s \in {r.shape_id : r \in Range(freq)} |->
        my_agg({r.direction : r \in {x \in Range(freq) : x.shape_id = s}})]

-----------------------------------------------------------------------------
(* build_agency, build_calendar_etc, build_routes *)

build_agency(m) ==
    <<[agency_name |-> m.agency_name, agency_url |-> m.agency_url,
       agency_timezone |-> m.agency_timezone]>>

\* get_sid over the five working days only.
get_sid_workdays(bitlist) ==
    <<"s", "r", "v">> \o Flatten([i \in 1..5 |-> Str(bitlist[i])])

\* get_sid: 'srv' followed by the seven flags.
get_sid(bitlist) ==
    <<"s", "r", "v">> \o Flatten([i \in 1..Len(bitlist) |-> Str(bitlist[i])])

\* The set of flag tuples build_calendar_etc collects.
Bitlists(windows) == {w.days : w \in Range(windows)}

\* The dictionary <service window ID> -> <service ID>: a later window
\* overwrites an earlier one of the same ID.
ServiceByWindow(windows) ==
    [id \in {w.service_window_id : w \in Range(windows)} |->
        LET last == CHOOSE i \in 1..Len(windows) :
                        /\ windows[i].service_window_id = id
                        /\ \A j \in (i + 1)..Len(windows) :
                               windows[j].service_window_id # id
        IN  get_sid(windows[last].days)]

\* The calendar table, one row for each element of the set of flag tuples,
\* in the order `order` in which the set is iterated.
Calendar(order, m) ==
    [i \in 1..Len(order) |->
        [service_id |-> get_sid(order[i]), days |-> order[i],
         start_date |-> m.start_date, end_date |-> m.end_date]]

build_routes(freq) ==
    LET f == DropDuplicates(
                 [i \in 1..Len(freq) |->
                     [route_short_name |-> freq[i].route_short_name,
                      route_long_name  |-> freq[i].route_long_name,
                      route_type       |-> freq[i].route_type,
                      shape_id         |-> freq[i].shape_id]])
    IN  [i \in 1..Len(f) |->
            [route_short_name |-> f[i].route_short_name,
             route_long_name  |-> f[i].route_long_name,
             route_type       |-> f[i].route_type,
             route_id         |-> <<"r">> \o f[i].route_short_name]]

-----------------------------------------------------------------------------
(* build_geometry_by_shape, build_shapes, build_stops *)

\* The keys of the dictionary comprehension, in insertion order.
GeometryKeys(features) ==
    DropDuplicates([i \in 1..Len(features) |-> features[i].shape_id])

\* <shape ID> -> <coordinates>: the last feature of an ID gives its value.
build_geometry_by_shape(features) ==
    [id \in {f.shape_id : f \in Range(features)} |->
        LET last == CHOOSE i \in 1..Len(features) :
                        /\ features[i].shape_id = id
                        /\ \A j \in (i + 1)..Len(features) :
                               features[j].shape_id # id
        IN  features[last].coords]

\* [[shid, i, lon, lat] for i, (lon, lat) in enumerate(coords)]
ShapeRows(shid, coords) ==
    [i \in 1..Len(coords) |->
        [shape_id |-> shid, shape_pt_sequence |-> i - 1,
         shape_pt_lon |-> coords[i][1], shape_pt_lat |-> coords[i][2]]]

\* ShapeRowsOf without reversed(): both shapes hold the points in order.
ShapeRowsOf_unreversed(shape, geom, extra) ==
    IF shape \notin DOMAIN extra THEN <<>>
    ELSE IF extra[shape] = 2
    THEN ShapeRows(shape \o <<"-", "1">>, geom)
             \o ShapeRows(shape \o <<"-", "0">>, geom)
    ELSE ShapeRows(shape \o <<SEP>> \o Str(extra[shape]), geom)

\* The rows build_shapes adds for one key of geometry_by_shape.
ShapeRowsOf(shape, geom, extra) ==
    IF shape \notin DOMAIN extra THEN <<>>
    ELSE IF extra[shape] = 2
    THEN ShapeRows(shape \o <<"-", "1">>, geom)
             \o ShapeRows(shape \o <<"-", "0">>, Reverse(geom))
    ELSE ShapeRows(shape \o <<SEP>> \o Str(extra[shape]), geom)

build_shapes(features, extra) ==
    LET keys == GeometryKeys(features)
        geometry_by_shape == build_geometry_by_shape(features)
    IN  Flatten([i \in 1..Len(keys) |->
            ShapeRowsOf(keys[i], geometry_by_shape[keys[i]], extra)])

\* gt.geometrize_shapes: <shape ID> -> <the points of the shape, ordered by
\* shape_pt_sequence>.
GeometrizeShapes(table) ==
    [id \in {r.shape_id : r \in Range(table)} |->
        LET pts == {r \in Range(table) : r.shape_id = id}
        IN  [k \in 1..Cardinality(pts) |->
                LET r == CHOOSE x \in pts : x.shape_pt_sequence = k - 1
                IN  <<r.shape_pt_lon, r.shape_pt_lat>>]]

\* linestring.length/1000: the length in km of a line whose segments are
\* parallel to the axes of the km grid the coordinates are given in.
Abs(x) == IF x < 0 THEN -x ELSE x

RECURSIVE Length(_)
Length(coords) ==
    IF Len(coords) < 2 THEN 0
    ELSE Abs(coords[2][1] - coords[1][1]) + Abs(coords[2][2] - coords[1][2])
             + Length(Tail(coords))

build_stop_ids(shape_id) ==
    [i \in 1..2 |-> Join(SEP, <<<<"s", "t", "p">>, shape_id, Str(i - 1)>>)]

build_stop_names(shape_id) ==
    [i \in 1..2 |-> <<"Stop", i - 1, "on shape", shape_id>>]

\* linestring.interpolate(i, normalized=True) for i = 0 and i = 1.
Interpolate(coords, i) == IF i = 0 THEN coords[1] ELSE coords[Len(coords)]

\* The two stops build_stops creates for one shape.
SyntheticStops(shape, coords) ==
    [i \in 1..2 |->
        [stop_id   |-> build_stop_ids(shape)[i],
         stop_name |-> build_stop_names(shape)[i],
         stop_lon  |-> Interpolate(coords, i - 1)[1],
         stop_lat  |-> Interpolate(coords, i - 1)[2]]]

build_stops(given, table) ==
    IF ~given.is_none THEN given.rows
    ELSE LET geo_shapes == GeometrizeShapes(table)
             ids == SortStrs(DOMAIN geo_shapes)
         IN  Flatten([i \in 1..Len(ids) |->
                 SyntheticStops(ids[i], geo_shapes[ids[i]])])

-----------------------------------------------------------------------------
(* build_trips *)

\* pd.merge(routes[['route_id', 'route_short_name']], pfeed.frequencies),
\* joined on route_short_name, then pd.merge(routes, pfeed.service_windows),
\* joined on service_window_id: one row for each match, in the left order.
TripsInput(rts, freq, windows) ==
    Flatten([i \in 1..Len(rts) |->
        Flatten([j \in 1..Len(freq) |->
            IF freq[j].route_short_name # rts[i].route_short_name THEN <<>>
            ELSE Flatten([k \in 1..Len(windows) |->
                IF windows[k].service_window_id # freq[j].service_window_id
                THEN <<>>
                ELSE <<[route_id |-> rts[i].route_id, f |-> freq[j],
                        w |-> windows[k]]>>])])])

\* int(frequency*duration), duration in hours, for a window with start < end.
NumTripsPerDirection(frequency, start, end) ==
    (frequency * get_duration(start, end)) \div 3600

Directions(direction) == IF direction = 2 THEN <<0, 1>> ELSE <<direction>>

TripId(route, window, start, direction, i) ==
    Join(SEP, <<<<"t">>, route, window, start, Str(direction), Str(i)>>)

\* The trips build_trips adds for one row of the merged table.
TripsOfRow(x, sbw) ==
    IF x.f.frequency = 0 THEN <<>>
    ELSE LET n == NumTripsPerDirection(x.f.frequency, x.w.start_time,
                                       x.w.end_time)
             dirs == Directions(x.f.direction)
         IN  Flatten([d \in 1..Len(dirs) |->
                 [i \in 1..n |->
                     [route_id     |-> x.route_id,
                      trip_id      |-> TripId(x.route_id,
                                              x.f.service_window_id,
                                              x.w.start_time, dirs[d], i - 1),
                      direction_id |-> dirs[d],
                      shape_id     |-> x.f.shape_id \o <<SEP>> \o Str(dirs[d]),
                      service_id   |-> sbw[x.f.service_window_id]]]])

build_trips(rts, freq, windows, sbw) ==
    LET merged == TripsInput(rts, freq, windows)
    IN  Flatten([i \in 1..Len(merged) |-> TripsOfRow(merged[i], sbw)])

-----------------------------------------------------------------------------
(* build_stop_times *)

\* The slack in km of the plausibility check d < D + 100.
Slack == 100

\* routes.filter(['route_id', 'route_short_name'])
\*     .merge(pfeed.frequencies.drop(['shape_id'], axis=1)),
\* joined on route_short_name.
StopTimesRoutes(rts, freq) ==
    Flatten([i \in 1..Len(rts) |->
        Flatten([j \in 1..Len(freq) |->
            IF freq[j].route_short_name # rts[i].route_short_name THEN <<>>
            ELSE <<[route_id          |-> rts[i].route_id,
                    route_short_name  |-> freq[j].route_short_name,
                    service_window_id |-> freq[j].service_window_id,
                    direction         |-> freq[j].direction,
                    frequency         |-> freq[j].frequency,
                    speed             |-> freq[j].speed]>>])])

\* trips.assign(service_window_id=trip_id.split(SEP)[2]).merge(routes),
\* joined on route_id and service_window_id.
StopTimesInput(trps, rts2) ==
    Flatten([i \in 1..Len(trps) |->
        Flatten([j \in 1..Len(rts2) |->
            IF /\ rts2[j].route_id = trps[i].route_id
               /\ rts2[j].service_window_id = Split(trps[i].trip_id, SEP)[3]
            THEN <<[trip |-> trps[i], r |-> rts2[j]]>>
            ELSE <<>>])])

\* sorted() of a set of (distance, stop ID) pairs.
RECURSIVE SortPairs(_)
SortPairs(S) ==
    IF S = {} THEN <<>>
    ELSE LET m == CHOOSE x \in S : \A y \in S \ {x} :
                      \/ x[1] < y[1]
                      \/ x[1] = y[1] /\ StrLess(x[2], y[2])
         IN  <<m>> \o SortPairs(S \ {m})

\* all([d < D + 100 for d in dists])
dists_are_reasonable(dists, D) ==
    \A i \in 1..Len(dists) : dists[i] < D + Slack

\* The distances compute_stops_dists_times settles on, as rationals: the
\* measured ones, or i*delta with delta = D/(n - 1).
Dists(measured, D) ==
    IF dists_are_reasonable(measured, D)
    THEN [i \in 1..Len(measured) |-> <<measured[i], 1>>]
    ELSE [i \in 1..Len(measured) |-> <<(i - 1) * D, Len(measured) - 1>>]

\* int(np.interp(x, [d0, d1], [t0, t1])) for t0 = t0n/t0d, t1 = t0 + duration
\* and the numerators x, d0 <= x <= d1 of distances of one denominator:
\* np.interp answers t1 at x = d1 (also when d0 = d1).
Interp(x, d0, d1, t0n, t0d, duration) ==
    IF x = d1 THEN (t0n + duration * t0d) \div t0d
    ELSE (t0n * (d1 - d0) + (x - d0) * duration * t0d) \div (t0d * (d1 - d0))

StopTimeRow(trip, stop, j, time, dist) ==
    [trip_id |-> trip, stop_id |-> stop, stop_sequence |-> j,
     arrival_time |-> SecondsToTimestr(time),
     departure_time |-> SecondsToTimestr(time),
     shape_dist_traveled |-> dist]

Outcome(e, rows) == [error |-> e, rows |-> rows]

\* compute_stops_dists_times and the rows made of its result. `near` is
\* <stop ID> -> <measured km> for the stops get_nearby_stops returned.
compute_stops_dists_times(trip, near, D, t0n, t0d, duration) ==
    LET sorted == SortPairs({<<near[s], s>> : s \in DOMAIN near})
        n == Len(sorted)
        measured == [i \in 1..n |-> sorted[i][1]]
    IN  IF n = 0 THEN Outcome("ValueError", <<>>)
        ELSE IF ~dists_are_reasonable(measured, D) /\ n = 1
        THEN Outcome("ZeroDivisionError", <<>>)
        ELSE LET dists == Dists(measured, D)
             IN  Outcome("", [j \in 1..n |->
                     StopTimeRow(trip, sorted[j][2], j - 1,
                         Interp(dists[j][1], dists[1][1], dists[n][1],
                                t0n, t0d, duration),
                         dists[j])])

\* int((length/speed)*3600)
Duration(length, speed) == (length * 3600) \div speed

\* One pass of the loop over the merged trips: the rows it adds, or the
\* exception it raises.
StopTimesOfRow(x, geometry_by_shape, given, near) ==
    IF x.trip.shape_id \notin DOMAIN geometry_by_shape
    THEN Outcome("KeyError", <<>>)
    ELSE IF x.r.frequency = 0 THEN Outcome("", <<>>)
    ELSE LET length == Length(geometry_by_shape[x.trip.shape_id])
             duration == Duration(length, x.r.speed)
             parts == Split(x.trip.trip_id, SEP)
         IN  IF Len(parts) # 6 THEN Outcome("ValueError", <<>>)
             ELSE IF ~IsDigits(parts[5]) \/ ~IsDigits(parts[6])
             THEN Outcome("ValueError", <<>>)
             ELSE LET base_time == TimestrToSeconds(parts[4])
                      \* start_time = base_time + headway*int(i), a rational
                      t0d == x.r.frequency
                      t0n == base_time * t0d + 3600 * ParseInt(parts[6])
                      stop_ids == build_stop_ids(x.trip.shape_id)
                  IN  IF given.is_none
                      THEN Outcome("", <<
                          StopTimeRow(x.trip.trip_id, stop_ids[1], 0,
                              t0n \div t0d, <<0, 1>>),
                          StopTimeRow(x.trip.trip_id, stop_ids[2], 1,
                              (t0n + duration * t0d) \div t0d, <<length, 1>>)>>)
                      ELSE compute_stops_dists_times(x.trip.trip_id,
                               near[x.trip.shape_id], length, t0n, t0d,
                               duration)

\* build_stop_times: the table, or the first exception raised.
build_stop_times(rts, freq, table, trps, given, near) ==
    LET merged == StopTimesInput(trps, StopTimesRoutes(rts, freq))
        geometry_by_shape == GeometrizeShapes(table)
        out == [i \in 1..Len(merged) |->
                   StopTimesOfRow(merged[i], geometry_by_shape, given, near)]
        bad == {i \in 1..Len(out) : out[i].error # ""}
    IN  IF bad # {}
        THEN Outcome(out[CHOOSE i \in bad : \A j \in bad : i <= j].error, <<>>)
        ELSE Outcome("", Flatten([i \in 1..Len(out) |-> out[i].rows]))

\* The stop table returned as it was built, with nothing removed.
PruneStops_none(stps, times) == stps

\* stops[stops.stop_id.isin(stop_times.stop_id)]
PruneStops(stps, times) ==
    SelectSeq(stps, LAMBDA s : s.stop_id \in {r.stop_id : r \in Range(times)})

-----------------------------------------------------------------------------
(* The inputs *)

\* The most rows of frequencies.csv, stops of stops.csv and windows of
\* service_windows.csv that are drawn.
MaxFreqRows == 2
MaxStops == 3
MaxWindows == 2

Meta ==
    [agency_name |-> "agency", agency_url |-> "http://agency",
     agency_timezone |-> "Pacific/Auckland", start_date |-> "20260101",
     end_date |-> "20261231", default_route_speed |-> 20]

Weekdays == <<1, 1, 1, 1, 1, 0, 0>>
Weekend  == <<0, 0, 0, 0, 0, 1, 1>>
Everyday == <<1, 1, 1, 1, 1, 1, 1>>

Window(id, start, end, days) ==
    [service_window_id |-> id, start_time |-> SecondsToTimestr(start),
     end_time |-> SecondsToTimestr(end), days |-> days]

\* 07:00:00 to 08:15:00 (1.25 h) and 10:00:00 to 10:20:00 (1/3 h).
WindowW == Window(<<"w">>, 25200, 29700, Weekdays)
WindowV == Window(<<"v">>, 36000, 37200, Weekend)
WindowWV == Window(<<"w", "-", "v">>, 43200, 46800, Weekdays)

\* Paths on the km grid; p is 3 km long, q 2 km.
PathP == [shape_id |-> <<"p">>, coords |-> <<<<0, 0>>, <<2, 0>>, <<2, 1>>>>]
PathQ == [shape_id |-> <<"q">>, coords |-> <<<<5, 5>>, <<5, 7>>>>]

FreqRow(route, window, direction, frequency, speed, shape) ==
    [route_short_name |-> route, route_long_name |-> <<"x">> \o route,
     route_type |-> <<>>, service_window_id |-> window,
     direction |-> direction, frequency |-> frequency, speed |-> speed,
     shape_id |-> shape]

StopIds == <<<<"1">>, <<"2">>, <<"3">>, <<"4">>, <<"5">>>>

\* The first k stops of an explicit stop table.
StopTable(k) ==
    [is_none |-> FALSE,
     rows |-> [i \in 1..k |->
                  [stop_id |-> StopIds[i], stop_name |-> <<"Stop", i>>,
                   stop_lon |-> i, stop_lat |-> 0]]]

NoStops == [is_none |-> TRUE, rows |-> <<>>]

\* The km the geometry library may measure for a stop along a 3 km shape:
\* on it, and at the length plus the slack.
MeasuredDists == {0, 1, 103}

\* The state after ProtoFeed(frequencies, meta, service_windows, shapes,
\* stops), for the given input and answers of the geometry library.
InitWith(raw, windows, features, given, near) ==
    /\ frequencies = CleanFrequencies(raw, Meta)
    /\ service_windows = windows
    /\ meta = Meta
    /\ pfeed_shapes = features
    /\ pfeed_stops = given
    /\ shapes_extra = ShapesExtra(CleanFrequencies(raw, Meta))
    /\ nearby = near
    /\ agency = <<>>
    /\ calendar = <<>>
    /\ service_by_window = <<>>
    /\ routes = <<>>
    /\ shapes = <<>>
    /\ stops = <<>>
    /\ trips = <<>>
    /\ stop_times = <<>>
    /\ feed_stops = <<>>
    /\ error = ""
    /\ pc = "agency"

\* Paths and directions: rows of one route and window over the paths p, q
\* and x (x has no geometry), the geometry source listing p, q or both.
InitShapes ==
    \E raw \in SeqUpTo({FreqRow(<<"a">>, <<"w">>, d, f, <<>>, s) :
                           d \in {0, 1, 2}, f \in {0, 2},
                           s \in {<<"p">>, <<"q">>, <<"x">>}},
                       MaxFreqRows),
       features \in {<<PathP, PathQ>>, <<PathQ, PathP>>, <<PathP>>} :
        InitWith(raw, <<WindowW>>, features, NoStops, <<>>)

\* Frequencies, speeds and windows: rows of two routes over one path.
InitCounts ==
    \E raw \in SeqUpTo({FreqRow(r, w, d, f, v, <<"p">>) :
                           r \in {<<"a">>, <<"b">>}, w \in {<<"w">>, <<"v">>},
                           d \in {0, 1, 2}, f \in {0, 2, 4},
                           v \in {<<>>, <<30>>}},
                       MaxFreqRows) :
        InitWith(raw, <<WindowW, WindowV>>, <<PathP, PathQ>>, NoStops, <<>>)

\* Service windows: up to MaxWindows windows of distinct IDs.
InitCalendar ==
    \E ids \in UNION {Orderings(S) :
                  S \in {T \in SUBSET {<<"v">>, <<"w">>, <<"x">>, <<"b">>} :
                            Cardinality(T) \in 1..MaxWindows}} :
    \E days \in [1..Len(ids) -> {Weekdays, Weekend, Everyday}] :
    \E f \in {0, 2} :
        InitWith(<<FreqRow(<<"a">>, ids[1], 2, f, <<>>, <<"p">>)>>,
                 [i \in 1..Len(ids) |->
                     Window(ids[i], 25200, 29700, days[i])],
                 <<PathP>>, NoStops, <<>>)

\* An explicit stop table: one row, and for each shape built the stops the
\* geometry library finds near it and the km it measures for them.
InitExplicit ==
    \E d \in {1, 2}, k \in 1..MaxStops :
    LET raw == <<FreqRow(<<"a">>, <<"w">>, d, 2, <<>>, <<"p">>)>>
        built == {r.shape_id :
                     r \in Range(build_shapes(<<PathP>>, ShapesExtra(raw)))}
        ids == {StopIds[i] : i \in 1..k}
    IN  \E near \in [built -> UNION {[S -> MeasuredDists] : S \in SUBSET ids}] :
            InitWith(raw, <<WindowW>>, <<PathP>>, StopTable(k), near)

\* Identifiers that contain the separator, over the paths p and x (x has
\* no geometry).
InitSeparators ==
    \E raw \in SeqUpTo({FreqRow(r, w, 1, 2, <<>>, s) :
                           r \in {<<"a">>, <<"a", "-", "w">>},
                           w \in {<<"w">>, <<"v">>, <<"w", "-", "v">>},
                           s \in {<<"p">>, <<"x">>}},
                       MaxFreqRows) :
        InitWith(raw, <<WindowW, WindowV, WindowWV>>, <<PathP>>, NoStops, <<>>)

Init ==
    InitShapes \/ InitCounts \/ InitCalendar \/ InitExplicit \/ InitSeparators

-----------------------------------------------------------------------------
(* build_feed, one action for each table it builds *)

BuildAgency ==
    /\ pc = "agency"
    /\ agency' = build_agency(meta)
    /\ pc' = "calendar"
    /\ UNCHANGED <<pfeed, calendar, service_by_window, routes, shapes, stops,
                   trips, stop_times, feed_stops, error>>

\* The calendar lists the set of flag tuples in the order the set is
\* iterated, which the code does not fix.
BuildCalendarEtc ==
    /\ pc = "calendar"
    /\ \E order \in Orderings(Bitlists(service_windows)) :
           calendar' = Calendar(order, meta)
    /\ service_by_window' = ServiceByWindow(service_windows)
    /\ pc' = "routes"
    /\ UNCHANGED <<pfeed, agency, routes, shapes, stops, trips, stop_times,
                   feed_stops, error>>

BuildRoutes ==
    /\ pc = "routes"
    /\ routes' = build_routes(frequencies)
    /\ pc' = "shapes"
    /\ UNCHANGED <<pfeed, agency, calendar, service_by_window, shapes, stops,
                   trips, stop_times, feed_stops, error>>

BuildShapes ==
    /\ pc = "shapes"
    /\ shapes' = build_shapes(pfeed_shapes, shapes_extra)
    /\ pc' = "stops"
    /\ UNCHANGED <<pfeed, agency, calendar, service_by_window, routes, stops,
                   trips, stop_times, feed_stops, error>>

BuildStops ==
    /\ pc = "stops"
    /\ stops' = build_stops(pfeed_stops, shapes)
    /\ pc' = "trips"
    /\ UNCHANGED <<pfeed, agency, calendar, service_by_window, routes, shapes,
                   trips, stop_times, feed_stops, error>>

BuildTrips ==
    /\ pc = "trips"
    /\ trips' = build_trips(routes, frequencies, service_windows,
                            service_by_window)
    /\ pc' = "stop_times"
    /\ UNCHANGED <<pfeed, agency, calendar, service_by_window, routes, shapes,
                   stops, stop_times, feed_stops, error>>

\* build_stop_times returns the table, or raises and ends build_feed.
BuildStopTimes ==
    /\ pc = "stop_times"
    /\ LET out == build_stop_times(routes, frequencies, shapes, trips,
                                   pfeed_stops, nearby)
       IN  /\ stop_times' = out.rows
           /\ error' = out.error
           /\ pc' = IF out.error = "" THEN "feed" ELSE "error"
    /\ UNCHANGED <<pfeed, agency, calendar, service_by_window, routes, shapes,
                   stops, trips, feed_stops>>

\* The end of build_feed: the stops that are not in stop times are removed
\* and the Feed is returned.
BuildFeed ==
    /\ pc = "feed"
    /\ feed_stops' = PruneStops(stops, stop_times)
    /\ pc' = "done"
    /\ UNCHANGED <<pfeed, agency, calendar, service_by_window, routes, shapes,
                   stops, trips, stop_times, error>>

Next ==
    \/ BuildAgency
    \/ BuildCalendarEtc
    \/ BuildRoutes
    \/ BuildShapes
    \/ BuildStops
    \/ BuildTrips
    \/ BuildStopTimes
    \/ BuildFeed

Spec == Init /\ [][Next]_vars

SpecShapes == InitShapes /\ [][Next]_vars

SpecCalendar == InitCalendar /\ [][Next]_vars

-----------------------------------------------------------------------------
(* What the claims speak of *)

AfterShapes == pc \notin {"agency", "calendar", "routes", "shapes"}
AfterStops == AfterShapes /\ pc # "stops"
AfterTrips == pc \in {"stop_times", "feed", "done", "error"}
StopTimesEnded == pc \in {"feed", "done", "error"}
StopTimesReturned == pc \in {"feed", "done"}

Synthetic == pfeed_stops.is_none

\* The service window of a frequency row.
WindowOf(id) ==
    CHOOSE w \in Range(service_windows) : w.service_window_id = id

\* No (route, service window, direction) is requested by two frequency rows.
DistinctCombos ==
    \A i, j \in 1..Len(frequencies) :
        i # j =>
            \/ frequencies[i].route_short_name # frequencies[j].route_short_name
            \/ frequencies[i].service_window_id
                   # frequencies[j].service_window_id
            \/ Range(Directions(frequencies[i].direction))
                   \cap Range(Directions(frequencies[j].direction)) = {}

\* floor(f * d) for the frequency row k.
FloorFD(k) ==
    LET w == WindowOf(frequencies[k].service_window_id)
    IN  (frequencies[k].frequency
             * (TimestrToSeconds(w.end_time) - TimestrToSeconds(w.start_time)))
            \div 3600

\* The identifier of trip i of the frequency row k in direction d.
TripIdOf(k, d, i) ==
    <<"t", "-", "r">> \o frequencies[k].route_short_name \o <<"-">>
        \o frequencies[k].service_window_id \o <<"-">>
        \o WindowOf(frequencies[k].service_window_id).start_time \o <<"-">>
        \o Str(d) \o <<"-">> \o Str(i)

ShapeIdOf(k, d) == frequencies[k].shape_id \o <<"-">> \o Str(d)

\* The trips the first n frequency rows ask for.
RECURSIVE TripsAskedFor(_)
TripsAskedFor(n) ==
    IF n = 0 THEN 0
    ELSE FloorFD(n) * Len(Directions(frequencies[n].direction))
             + TripsAskedFor(n - 1)

\* The rows of the stop-time table of one trip, in emission order.
RowsOfTrip(id) == SelectSeq(stop_times, LAMBDA r : r.trip_id = id)

\* a/b <= c/d and a/b = c/d for distances <<numerator, denominator>>.
DistLeq(x, y) == x[1] * y[2] <= y[1] * x[2]
DistEq(x, y) == x[1] * y[2] = y[1] * x[2]

\* The length in km of a built shape.
ShapeLength(id) == Length(GeometrizeShapes(shapes)[id])

\* The shape identifiers of the shapes table, and the points of one.
ShapeIds == {r.shape_id : r \in Range(shapes)}

PointsOf(id) ==
    LET rows == SelectSeq(shapes, LAMBDA r : r.shape_id = id)
    IN  [i \in 1..Len(rows) |-> <<rows[i].shape_pt_lon, rows[i].shape_pt_lat>>]

SequencedFromZero(id) ==
    LET rows == SelectSeq(shapes, LAMBDA r : r.shape_id = id)
    IN  \A i \in 1..Len(rows) : rows[i].shape_pt_sequence = i - 1

\* The shapes built from the path `name`: those named name-<one character>.
ShapesOfPath(name) ==
    {id \in ShapeIds : Len(id) = Len(name) + 2
                         /\ SubSeq(id, 1, Len(name)) = name}

\* The directions the frequency rows request of the path `name`.
DirectionsOfPath(name) ==
    {frequencies[k].direction :
        k \in {i \in 1..Len(frequencies) : frequencies[i].shape_id = name}}

-----------------------------------------------------------------------------
(* The claims *)

\* C1: every frequency row of nonzero frequency f over a window of d hours
\* yields exactly floor(f * d) trips, of indices 0..floor(f * d) - 1, in each
\* direction it requests (direction 2: that many in direction 0 and again
\* in direction 1), and the trip table holds no other trip. Stated for the
\* inputs in which no two rows request the same (route, window, direction).
C1_TripCount ==
    (AfterTrips /\ DistinctCombos) =>
        /\ \A k \in 1..Len(frequencies) :
               frequencies[k].frequency # 0 =>
                   \A d \in Range(Directions(frequencies[k].direction)) :
                   \A i \in 0..(FloorFD(k) - 1) :
                       Cardinality({j \in 1..Len(trips) :
                           /\ trips[j].trip_id = TripIdOf(k, d, i)
                           /\ trips[j].direction_id = d
                           /\ trips[j].shape_id = ShapeIdOf(k, d)}) = 1
        /\ Len(trips) = TripsAskedFor(Len(frequencies))

\* C2: within any trip of the stop-time table the rows in emission order
\* have stop_sequence 0, 1, 2, ..., and non-decreasing distance and time.
C2_Monotone ==
    (StopTimesReturned /\ DistinctCombos) =>
        \A t \in {r.trip_id : r \in Range(stop_times)} :
            LET rows == RowsOfTrip(t)
            IN  \A j \in 1..Len(rows) :
                    /\ rows[j].stop_sequence = j - 1
                    /\ j > 1 =>
                        /\ DistLeq(rows[j - 1].shape_dist_traveled,
                                   rows[j].shape_dist_traveled)
                        /\ TimestrToSeconds(rows[j - 1].arrival_time)
                               <= TimestrToSeconds(rows[j].arrival_time)
                        /\ TimestrToSeconds(rows[j - 1].departure_time)
                               <= TimestrToSeconds(rows[j].departure_time)

\* C3: in synthetic-stop mode every built shape has exactly 2 stops, and
\* every trip of the trip table has exactly 2 stop-time rows, one at
\* distance 0 and one at the length of its shape.
C3_TwoStopsTwoRows ==
    Synthetic =>
        /\ AfterStops =>
               \A id \in ShapeIds :
                   Cardinality({j \in 1..Len(stops) :
                       stops[j].stop_id \in Range(build_stop_ids(id))}) = 2
        /\ (StopTimesEnded /\ DistinctCombos
                /\ \A j \in 1..Len(trips) : trips[j].shape_id \in ShapeIds) =>
               /\ pc # "error"
               /\ \A j \in 1..Len(trips) :
                      LET rows == RowsOfTrip(trips[j].trip_id)
                      IN  /\ Len(rows) = 2
                          /\ DistEq(rows[1].shape_dist_traveled, <<0, 1>>)
                          /\ DistEq(rows[2].shape_dist_traveled,
                                    <<ShapeLength(trips[j].shape_id), 1>>)

\* The trips with at least one stop in the buffer of their shape.
TripsWithStops ==
    SelectSeq(trips, LAMBDA t : t.shape_id \in DOMAIN nearby
                                   /\ DOMAIN nearby[t.shape_id] # {})

\* C4: in explicit-stop mode a trip with no stop in its buffer gets no
\* stop-time row and does not abort the run: build_stop_times ends as it
\* does for the trip table without the stop-less trips.
C4_NoStopsNoAbort ==
    (StopTimesEnded /\ ~Synthetic) =>
        LET others == build_stop_times(routes, frequencies, shapes,
                          TripsWithStops, pfeed_stops, nearby)
        IN  /\ error = others.error
            /\ stop_times = others.rows

\* The measured distances of the stops near a shape, ascending.
MeasuredOf(shape) ==
    LET sorted == SortPairs({<<nearby[shape][s], s>> :
                                s \in DOMAIN nearby[shape]})
    IN  [i \in 1..Len(sorted) |-> sorted[i][1]]

\* C5: in explicit-stop mode a trip with n >= 1 stops of which one is
\* measured at the shape's length + 100 km or more gets n evenly spaced
\* distances from 0 to the shape's length; a trip whose measured distances
\* all pass keeps them. Stated for the runs in which every trip has a stop.
C5_Fallback ==
    (StopTimesEnded /\ ~Synthetic /\ Len(TripsWithStops) = Len(trips)) =>
        \A j \in 1..Len(trips) :
            LET rows == RowsOfTrip(trips[j].trip_id)
                L == ShapeLength(trips[j].shape_id)
                m == MeasuredOf(trips[j].shape_id)
                n == Len(m)
            IN  /\ Len(rows) = n
                /\ IF \E i \in 1..n : m[i] >= L + 100
                   THEN /\ DistEq(rows[1].shape_dist_traveled, <<0, 1>>)
                        /\ DistEq(rows[n].shape_dist_traveled, <<L, 1>>)
                        /\ \A i \in 1..n :
                               DistEq(rows[i].shape_dist_traveled,
                                      <<(i - 1) * L, n - 1>>)
                   ELSE \A i \in 1..n :
                            DistEq(rows[i].shape_dist_traveled, <<m[i], 1>>)

\* C6: the first stop-time row of trip i of a frequency row (frequency f,
\* speed v, shape of length L) is at window_start + i * 3600/f seconds and
\* distance 0, the last at that time + whole seconds of L/v and distance L.
C6_StartAndEnd ==
    (StopTimesReturned /\ DistinctCombos) =>
        \A k \in 1..Len(frequencies) :
            frequencies[k].frequency # 0 =>
                \A d \in Range(Directions(frequencies[k].direction)) :
                \A i \in 0..(FloorFD(k) - 1) :
                    LET rows == RowsOfTrip(TripIdOf(k, d, i))
                        L == ShapeLength(ShapeIdOf(k, d))
                        start ==
                            TimestrToSeconds(WindowOf(
                                frequencies[k].service_window_id).start_time)
                                + (i * 3600) \div frequencies[k].frequency
                        end == start + (L * 3600) \div frequencies[k].speed
                    IN  Len(rows) > 0 =>
                            /\ rows[1].arrival_time = SecondsToTimestr(start)
                            /\ DistEq(rows[1].shape_dist_traveled, <<0, 1>>)
                            /\ rows[Len(rows)].arrival_time
                                   = SecondsToTimestr(end)
                            /\ DistEq(rows[Len(rows)].shape_dist_traveled,
                                      <<L, 1>>)

\* The paths of the geometry source, with their coordinates.
Geometry == build_geometry_by_shape(pfeed_shapes)

\* C7: a path with a geometry that a frequency row of direction 2 refers to
\* has exactly two shapes, path-1 with the points of the path in order and
\* path-0 with the same points reversed.
C7_BothDirections ==
    AfterShapes =>
        \A name \in DOMAIN Geometry :
            2 \in DirectionsOfPath(name) =>
                /\ ShapesOfPath(name)
                       = {name \o <<"-", "1">>, name \o <<"-", "0">>}
                /\ PointsOf(name \o <<"-", "1">>) = Geometry[name]
                /\ PointsOf(name \o <<"-", "0">>) = Reverse(Geometry[name])
                /\ PointsOf(name \o <<"-", "0">>)
                       = Reverse(PointsOf(name \o <<"-", "1">>))
                /\ SequencedFromZero(name \o <<"-", "1">>)
                /\ SequencedFromZero(name \o <<"-", "0">>)

C7_Witness ==
    /\ pc = "stops"
    /\ 2 \in DirectionsOfPath(<<"p">>)
    /\ <<"p">> \in DOMAIN Geometry
    /\ PointsOf(<<"p", "-", "0">>) = <<<<2, 1>>, <<2, 0>>, <<0, 0>>>>
    /\ PointsOf(<<"p", "-", "1">>) = <<<<0, 0>>, <<2, 0>>, <<2, 1>>>>

\* C8: the shapes of a path with a geometry follow from all the frequency
\* rows that refer to it: both shapes (tags 0 and 1) when a row has
\* direction 2 or the rows differ in direction, the one shape tagged d with
\* the points in order when all rows have direction d, none when no row
\* refers to the path.
C8_AggregatedDirections ==
    AfterShapes =>
        \A name \in DOMAIN Geometry :
            LET dirs == DirectionsOfPath(name)
            IN  /\ dirs = {} => ShapesOfPath(name) = {}
                /\ (2 \in dirs \/ Cardinality(dirs) > 1) =>
                       ShapesOfPath(name)
                           = {name \o <<"-", "0">>, name \o <<"-", "1">>}
                /\ \A d \in {0, 1} :
                       dirs = {d} =>
                           /\ ShapesOfPath(name) = {name \o <<"-">> \o Str(d)}
                           /\ PointsOf(name \o <<"-">> \o Str(d))
                                  = Geometry[name]

C8_Witness ==
    /\ pc = "stops"
    /\ DirectionsOfPath(<<"p">>) = {0, 1}
    /\ DirectionsOfPath(<<"q">>) = {}
    /\ <<"q">> \in DOMAIN Geometry
    /\ ShapesOfPath(<<"p">>) = {<<"p", "-", "0">>, <<"p", "-", "1">>}
    /\ ShapesOfPath(<<"q">>) = {}

\* C9: the calendar has exactly one entry for each distinct tuple of day
\* flags of the service windows, and every window identifier is mapped to
\* the service identifier of the one entry that carries the window's flags.
C9_CalendarEntries ==
    pc \notin {"agency", "calendar"} =>
        /\ Len(calendar) = Cardinality({w.days : w \in Range(service_windows)})
        /\ \A w \in Range(service_windows) :
               /\ w.service_window_id \in DOMAIN service_by_window
               /\ \E i \in 1..Len(calendar) :
                      /\ calendar[i].days = w.days
                      /\ \A j \in 1..Len(calendar) :
                             calendar[j].service_id
                                 = service_by_window[w.service_window_id]
                                 <=> j = i

C9_Witness ==
    /\ pc = "routes"
    /\ Len(service_windows) = 2
    /\ service_windows[1].days = service_windows[2].days
    /\ Len(calendar) = 1
    /\ service_by_window[service_windows[1].service_window_id]
           = service_by_window[service_windows[2].service_window_id]

\* C10: every trip identifier of the trip table splits at the separator
\* into the six components it was joined from: 't', the route identifier,
\* the service window identifier, the start time of that window, the
\* direction digit and the index.
C10_TripIdRoundTrip ==
    AfterTrips =>
        \A j \in 1..Len(trips) :
            LET parts == Split(trips[j].trip_id, SEP)
            IN  /\ Len(parts) = 6
                /\ parts[1] = <<"t">>
                /\ parts[2] = trips[j].route_id
                /\ \E w \in Range(service_windows) :
                       /\ parts[3] = w.service_window_id
                       /\ parts[4] = w.start_time
                       /\ service_by_window[parts[3]] = trips[j].service_id
                /\ parts[5] = Str(trips[j].direction_id)
                /\ IsDigits(parts[6])

\* The frequency rows of nonzero frequency, in order.
NonZero == SelectSeq(frequencies, LAMBDA r : r.frequency # 0)

\* C11: a frequency row of frequency 0 gives no trip and no stop-time row,
\* raises no error, and leaves the trips and stop-time rows of the other
\* rows as they are: the trip table, the stop-time table and the exception
\* of the run are those of the run over the rows of nonzero frequency.
C11_ZeroFrequency ==
    LET rts == build_routes(NonZero)
        trps == build_trips(rts, NonZero, service_windows,
                            ServiceByWindow(service_windows))
        table == build_shapes(pfeed_shapes, ShapesExtra(NonZero))
        out == build_stop_times(rts, NonZero, table, trps, pfeed_stops,
                                nearby)
    IN  /\ AfterTrips => trips = trps
        /\ StopTimesEnded => (error = out.error /\ stop_times = out.rows)

\* C12: the last step of build_feed only removes rows of the stop table:
\* the stop table of the feed lists, in their order and unaltered, exactly
\* the built stops whose stop_id occurs in the stop-time table, and the
\* step changes no other table and none of the ProtoFeed's input tables.
C12_OnlyPrunes ==
    [][pc = "feed" =>
          /\ feed_stops'
                 = SelectSeq(stops, LAMBDA s :
                       \E r \in Range(stop_times) : r.stop_id = s.stop_id)
          /\ UNCHANGED <<stops, shapes, trips, stop_times, calendar,
                         service_by_window, routes, agency, pfeed>>]_vars

C12_Witness ==
    /\ pc = "done"
    /\ Len(feed_stops) > 0
    /\ Len(feed_stops) < Len(stops)
    /\ \E i \in 1..Len(stops) :
           \A r \in Range(stop_times) : r.stop_id # stops[i].stop_id

\* The frequency rows whose shape_id has no geometry in the geometry source.
WithoutGeometry ==
    {k \in 1..Len(frequencies) : frequencies[k].shape_id \notin DOMAIN Geometry}

\* C13: when a frequency row refers to a shape_id that has no geometry in
\* the geometry source, whatever its frequency and window, the run ends
\* with an error for the missing shape and returns no feed.
C13_MissingGeometryFails ==
    /\ (StopTimesEnded /\ WithoutGeometry # {}) =>
           (pc = "error" /\ error = "KeyError")
    /\ pc = "done" => WithoutGeometry = {}

\* C14: no two rows of the trip table share a trip_id, when no two
\* frequency rows request the same (route, service window, direction);
\* the rows of a route may name several shape_ids.
C14_UniqueTripIds ==
    (AfterTrips /\ DistinctCombos) =>
        \A i, j \in 1..Len(trips) :
            i # j => trips[i].trip_id # trips[j].trip_id

\* C15: in a returned feed the shape_id of every trip is the identifier of
\* a shape of the shapes table, and its last component, after the
\* separator, is the digit of the trip's direction_id.
C15_TripShapes ==
    pc = "done" =>
        \A j \in 1..Len(trips) :
            LET parts == Split(trips[j].shape_id, SEP)
            IN  /\ trips[j].shape_id \in ShapeIds
                /\ parts[Len(parts)] = Str(trips[j].direction_id)

====
